---- MODULE Spec2Model ----
(***************************************************************************)
(* Model of Github-Issue-to-PDF.py: the lazy issue fetcher (fetch_issues), *)
(* the comment fetcher, the image inliner, the PDF exporter with its error *)
(* log, and the orchestrating loop of main().                              *)
(***************************************************************************)
EXTENDS Integers, Sequences, FiniteSets, TLC

\* ------------------------------------------------------------------ bounds
\* records (issues and pull requests together) in one upstream listing
MaxRecords == 3
\* comments of one issue
MaxComments == 2
\* lines an earlier run left in error_log.txt
MaxPriorLines == 1
\* image references in a document handed to the inliner on its own
MaxImgs == 2

\* per_page = 100 in fetch_issues
PerPage == 100

\* ------------------------------------------------------------- helpers
RECURSIVE Flatten(_)
Flatten(ss) == IF ss = <<>> THEN <<>> ELSE Head(ss) \o Flatten(Tail(ss))

RECURSIVE SumLen(_)
SumLen(ss) == IF ss = <<>> THEN 0 ELSE Len(Head(ss)) + SumLen(Tail(ss))

RECURSIVE SumSeq(_)
SumSeq(s) == IF s = <<>> THEN 0 ELSE Head(s) + SumSeq(Tail(s))

Range(s) == {s[i] : i \in 1..Len(s)}

IsPrefix(s, t) == Len(s) <= Len(t) /\ SubSeq(t, 1, Len(s)) = s

\* ------------------------------------------------------ upstream listing
\* A record of the issue listing: its number and whether it carries the
\* "pull_request" key.
Record(n, pr) == [number |-> n, pull_request |-> pr]

NoIssue == Record(0, FALSE)

\* Pages of pull-request flags; numbers are given by position, so that the
\* numbers of one listing are distinct.
FlagPages == UNION {[1..n -> BOOLEAN] : n \in 1..MaxRecords}

FlagListings ==
    {fl \in UNION {[1..k -> FlagPages] : k \in 0..MaxRecords} :
        SumLen(fl) <= MaxRecords}

Listing(fl) ==
    [p \in 1..Len(fl) |->
        [i \in 1..Len(fl[p]) |->
            Record(SumLen(SubSeq(fl, 1, p - 1)) + i, fl[p][i])]]

Listings == {Listing(fl) : fl \in FlagListings}

\* The listing of the pagination scenario: two full pages and a short one,
\* every record an issue.
BigSizes == <<PerPage, PerPage, 37>>

BigListing ==
    [p \in 1..Len(BigSizes) |->
        [i \in 1..BigSizes[p] |->
            Record(SumSeq(SubSeq(BigSizes, 1, p - 1)) + i, FALSE)]]

\* ------------------------------------------------------- image sources
\* A src attribute is a sequence of characters.
SrcHttps == <<"h", "t", "t", "p", "s", ":", "/", "/", "x">>
SrcUpper == <<"H", "T", "T", "P", ":", "/", "/", "x">>
SrcData == <<"d", "a", "t", "a", ":", "*">>
SrcRelative == <<"i", "m", "g", "/", "x">>
SrcHttpDir == <<"h", "t", "t", "p", "d", "o", "c", "s", "/", "x">>
SrcNone == <<>>

Srcs == {SrcHttps, SrcUpper, SrcData, SrcRelative, SrcHttpDir, SrcNone}

Docs == UNION {[1..n -> Srcs] : n \in 0..MaxImgs}

\* the image references of an issue's assembled document in a full run
IssueImgs == {<<>>, <<SrcHttps>>}

VARIABLES
    upstream,       \* the pages of the upstream issue listing
    pc,             \* where the run is
    page,           \* fetch_issues: page
    data,           \* fetch_issues: data, the page being iterated
    idx,            \* fetch_issues: position of the for loop in data
    issue_data,     \* main: the issue being processed
    yielded,        \* history: the records fetch_issues has yielded
    trace,          \* history: listing requests and per-issue steps
    exited,         \* exit status of the process
    total_issues,   \* main: total_issues
    comments,       \* fetch_comments_for_issue: comments
    cpage,          \* fetch_comments_for_issue: page
    cserved,        \* history: comment pages served for this issue
    cres,           \* how the comment paging ended
    doc,            \* create_issue_pdf: the assembled document
    html,           \* inline_images_in_html: the sources after inlining
    warnings,       \* inline_images_in_html: warnings printed
    fetched,        \* history: how sess.get ended per image, "none" if not called
    pdfs,           \* issue_<n>.pdf files in OUTPUT_DIR
    errorLog,       \* lines of error_log.txt
    logAtStart,     \* history: error_log.txt when the run started
    renderFailed    \* history: issues whose rendering raised, in order

vars == <<upstream, pc, page, data, idx, issue_data, yielded, trace, exited,
          total_issues, comments, cpage, cserved, cres, doc, html, warnings,
          fetched, pdfs, errorLog, logAtStart, renderFailed>>

genVars == <<page, data, idx, yielded>>
issueVars == <<issue_data, comments, cpage, cserved, cres>>
inlineVars == <<doc, html, warnings, fetched>>
outVars == <<pdfs, errorLog, renderFailed, total_issues>>

Event(kind, arg, res) == [kind |-> kind, arg |-> arg, res |-> res]

NoDoc == [number |-> 0, comments |-> <<>>, imgs |-> <<>>]

Terminal == {"Done", "Aborted", "Crashed"}

\* ------------------------------------------------------------ fetch_issues
\* "pull_request" in issue
IsPullRequest(issue) == issue.pull_request

\* resp.json() of a 200 response for the given page: the page of the
\* listing, and the empty list past its end
PageOf(listing, p) == IF p <= Len(listing) THEN listing[p] ELSE <<>>

\* mutant: the loop yields pull requests too
NextIssueKeepsPulls(d, i) == IF i < Len(d) THEN i + 1 ELSE 0

\* the for loop over data: the next record after position i that is not
\* skipped as a pull request, 0 when the loop runs out
NextIssue(d, i) ==
    IF \E j \in (i + 1)..Len(d) : ~IsPullRequest(d[j])
    THEN CHOOSE j \in (i + 1)..Len(d) :
            /\ ~IsPullRequest(d[j])
            /\ \A k \in (i + 1)..(j - 1) : IsPullRequest(d[k])
    ELSE 0

\* mutant: a page shorter than per_page ends the listing unread
ListingOutcomeShortPage(kind, d) ==
    CASE kind = "raise" -> "Crashed"
      [] kind = "error" -> "Aborted"
      [] kind = "nonlist" -> "Done"
      [] kind = "ok" /\ Len(d) < PerPage -> "Done"
      [] OTHER -> "Iterating"

\* mutant: a non-200 status only breaks out of the paging loop
ListingOutcomeBreaks(kind, d) ==
    CASE kind = "raise" -> "Crashed"
      [] kind \in {"error", "nonlist"} -> "Done"
      [] kind = "ok" /\ Len(d) = 0 -> "Done"
      [] OTHER -> "Iterating"

\* where a listing response takes the generator: a non-200 status exits
\* the process, a raised transport exception is caught nowhere, a payload
\* that is no list or is empty ends the loop, anything else is iterated
ListingOutcome(kind, d) ==
    CASE kind = "raise" -> "Crashed"
      [] kind = "error" -> "Aborted"
      [] kind = "nonlist" -> "Done"
      [] kind = "ok" /\ Len(d) = 0 -> "Done"
      [] OTHER -> "Iterating"

\* page after the for loop over a page has run out
PageAfter(p) == p + 1

\* mutant: sys.exit() without a status
ExitStatusNoCode(state) ==
    CASE state \in {"Done", "Aborted"} -> "zero"
      [] state = "Crashed" -> "nonzero"
      [] OTHER -> "running"

ExitStatus(state) ==
    CASE state = "Done" -> "zero"
      [] state \in {"Aborted", "Crashed"} -> "nonzero"
      [] OTHER -> "running"

ListKinds == {"ok", "nonlist", "error", "raise"}

\* main() starts and the generator is entered at its first request
Start ==
    /\ pc = "Idle"
    /\ pc' = "FetchingIssues"
    /\ UNCHANGED <<upstream, genVars, issueVars, inlineVars, outVars, trace,
                   exited, logAtStart>>

\* one sess.get of the issue listing and the checks on its response
FetchIssuesRequest ==
    /\ pc = "FetchingIssues"
    /\ \E kind \in ListKinds :
        LET d == IF kind = "ok" THEN PageOf(upstream, page) ELSE <<>>
            to == ListingOutcome(kind, d)
        IN  /\ trace' = Append(trace, Event("list", page, kind))
            /\ pc' = to
            /\ exited' = ExitStatus(to)
            /\ data' = IF to = "Iterating" THEN d ELSE data
            /\ idx' = IF to = "Iterating" THEN 0 ELSE idx
    /\ UNCHANGED <<upstream, page, yielded, issueVars, inlineVars, outVars,
                   logAtStart>>

\* mutant: the document is built before the comments are fetched
IssueEntryNoComments == "Assembling"

\* the first step main takes with a yielded issue
IssueEntry == "FetchingComments"

\* the generator runs on to its next yield, or past the end of the page to
\* the next request
FetchIssuesNext ==
    /\ pc = "Iterating"
    /\ LET j == NextIssue(data, idx)
       IN  IF j = 0
           THEN /\ page' = PageAfter(page)
                /\ pc' = "FetchingIssues"
                /\ UNCHANGED <<data, idx, yielded, issueVars, trace>>
           ELSE /\ idx' = j
                /\ issue_data' = data[j]
                /\ yielded' = Append(yielded, data[j])
                /\ trace' = Append(trace, Event("yield", data[j].number, "ok"))
                /\ pc' = IssueEntry
                /\ comments' = <<>>
                /\ cpage' = 1
                /\ cserved' = <<>>
                /\ cres' = "paging"
                /\ UNCHANGED <<page, data>>
    /\ UNCHANGED <<upstream, inlineVars, outVars, exited, logAtStart>>

\* ------------------------------------------------ fetch_comments_for_issue
Comment(n, k, i) == <<n, k, i>>

CommentPage(n, k, len) == [i \in 1..len |-> Comment(n, k, i)]

\* lengths the upstream may give the next comment page
CommentPageLens(acc) == 0..(MaxComments - Len(acc))

\* mutant: a failed page discards what was accumulated
CommentsOnErrorDrops(acc) == <<>>

\* what the function returns when a page request has a non-200 status
CommentsOnError(acc) == acc

\* comments.extend(page_data)
CommentsExtend(acc, page_data) == acc \o page_data

CommentKinds == {"ok", "error", "raise"}

FetchCommentsRequest ==
    /\ pc = "FetchingComments"
    /\ \E kind \in CommentKinds, len \in CommentPageLens(comments) :
        LET n == issue_data.number
            page_data == CommentPage(n, cpage, len)
        IN  CASE kind = "raise" ->
                    /\ len = 0
                    /\ pc' = "Crashed"
                    /\ exited' = ExitStatus("Crashed")
                    /\ cres' = "raise"
                    /\ UNCHANGED <<comments, cpage, cserved, trace>>
              [] kind = "error" ->
                    /\ len = 0
                    /\ comments' = CommentsOnError(comments)
                    /\ cres' = "error"
                    /\ pc' = "Assembling"
                    /\ trace' = Append(trace, Event("comments", n, "error"))
                    /\ UNCHANGED <<cpage, cserved, exited>>
              [] kind = "ok" /\ len = 0 ->
                    /\ cres' = "end"
                    /\ pc' = "Assembling"
                    /\ trace' = Append(trace, Event("comments", n, "ok"))
                    /\ UNCHANGED <<comments, cpage, cserved, exited>>
              [] OTHER ->
                    /\ comments' = CommentsExtend(comments, page_data)
                    /\ cserved' = Append(cserved, page_data)
                    /\ cpage' = cpage + 1
                    /\ UNCHANGED <<cres, pc, trace, exited>>
    /\ UNCHANGED <<upstream, genVars, issue_data, inlineVars, outVars,
                   logAtStart>>

\* --------------------------------------------------- inline_images_in_html
Lower(ch) ==
    CASE ch = "H" -> "h"
      [] ch = "T" -> "t"
      [] ch = "P" -> "p"
      [] ch = "S" -> "s"
      [] OTHER -> ch

LowerStr(s) == [i \in 1..Len(s) |-> Lower(s[i])]

StartsWith(s, prefix) ==
    Len(s) >= Len(prefix) /\ SubSeq(s, 1, Len(prefix)) = prefix

\* src.lower().startswith("http")
LooksLikeUrl(src) == StartsWith(LowerStr(src), <<"h", "t", "t", "p">>)

\* the argument of sess.get is a URL with an http or https scheme; for any
\* other argument the HTTP client raises before sending anything
ValidUrl(src) ==
    \/ StartsWith(LowerStr(src), <<"h", "t", "t", "p", ":", "/", "/">>)
    \/ StartsWith(LowerStr(src), <<"h", "t", "t", "p", "s", ":", "/", "/">>)

\* how sess.get(src) can end
GetOutcomes(src) ==
    IF ValidUrl(src) THEN {"ok", "error", "raise"} ELSE {"raise"}

\* f"data:{content_type};base64,{b64_data}"
DataUrl(src) == <<"d", "a", "t", "a", ":">> \o <<"*">>

\* the body of the loop over the img tags, for one tag; out is how its
\* fetch ends when one is made
InlineOne(src, out) ==
    IF LooksLikeUrl(src)
    THEN [src |-> IF out = "ok" THEN DataUrl(src) ELSE src,
          warned |-> out # "ok",
          fetched |-> out]
    ELSE [src |-> src, warned |-> FALSE, fetched |-> "none"]

\* the fetch outcomes a document's image references can meet
OutcomeChoices(srcs) ==
    {outs \in [1..Len(srcs) -> {"ok", "error", "raise", "none"}] :
        \A i \in 1..Len(srcs) :
            IF LooksLikeUrl(srcs[i])
            THEN outs[i] \in GetOutcomes(srcs[i])
            ELSE outs[i] = "none"}

inline_images_in_html(srcs, outs) ==
    LET one == [i \in 1..Len(srcs) |-> InlineOne(srcs[i], outs[i])]
    IN  [html |-> [i \in 1..Len(srcs) |-> one[i].src],
         warnings |-> Cardinality({i \in 1..Len(srcs) : one[i].warned}),
         fetched |-> [i \in 1..Len(srcs) |-> one[i].fetched]]

\* -------------------------------------------------------- create_issue_pdf
\* the document built from the issue and the comments handed over, with
\* its images inlined
AssembleIssue ==
    /\ pc = "Assembling"
    /\ \E imgs \in IssueImgs :
        \E outs \in OutcomeChoices(imgs) :
            LET r == inline_images_in_html(imgs, outs)
            IN  /\ doc' = [number |-> issue_data.number,
                           comments |-> comments,
                           imgs |-> imgs]
                /\ html' = r.html
                /\ warnings' = r.warnings
                /\ fetched' = r.fetched
    /\ trace' = Append(trace, Event("assemble", issue_data.number, "ok"))
    /\ pc' = "Exporting"
    /\ UNCHANGED <<upstream, genVars, issueVars, outVars, exited, logAtStart>>

\* a line of error_log.txt; the issue number stands for the message and
\* FALSE for "written by this run" in place of the timestamp
LogLine(n) == [issue |-> n, prior |-> FALSE]

PriorLine == [issue |-> 0, prior |-> TRUE]

\* mutant: the log is opened with "w"
log_error_truncating(log, n) == <<LogLine(n)>>

\* open(log_path, "a") and one write
log_error(log, n) == Append(log, LogLine(n))

\* the files after pdfkit.from_string for issue n, which raises when
\* rendered is FALSE
FilesAfterRender(files, n, rendered) ==
    IF rendered THEN files \cup {n} ELSE files

\* mutant: the except branch swallows the failure
LogAfterRenderSilent(log, n, rendered) == log

\* error_log.txt after the try/except around pdfkit.from_string
LogAfterRender(log, n, rendered) ==
    IF rendered THEN log ELSE log_error(log, n)

\* total_issues += 1 after create_issue_pdf returned
CountIssue(total, rendered) == total + 1

\* pdfkit.from_string, the except branch, and the end of the loop body
ExportIssue ==
    /\ pc = "Exporting"
    /\ \E rendered \in BOOLEAN :
        LET n == doc.number
        IN  /\ pdfs' = FilesAfterRender(pdfs, n, rendered)
            /\ errorLog' = LogAfterRender(errorLog, n, rendered)
            /\ renderFailed' =
                   IF rendered THEN renderFailed ELSE Append(renderFailed, n)
            /\ total_issues' = CountIssue(total_issues, rendered)
            /\ trace' = Append(trace,
                   Event("export", n, IF rendered THEN "ok" ELSE "raise"))
    /\ pc' = "Iterating"
    /\ issue_data' = NoIssue
    /\ comments' = <<>>
    /\ cpage' = 1
    /\ cserved' = <<>>
    /\ cres' = "none"
    /\ doc' = NoDoc
    /\ html' = <<>>
    /\ warnings' = 0
    /\ fetched' = <<>>
    /\ UNCHANGED <<upstream, genVars, exited, logAtStart>>

\* ---------------------------------------------------------- specifications
PriorLogs == UNION {[1..n -> {PriorLine}] : n \in 0..MaxPriorLines}

InitRun(listings) ==
    /\ upstream \in listings
    /\ pc = "Idle"
    /\ page = 1
    /\ data = <<>>
    /\ idx = 0
    /\ issue_data = NoIssue
    /\ yielded = <<>>
    /\ trace = <<>>
    /\ exited = "running"
    /\ total_issues = 0
    /\ comments = <<>>
    /\ cpage = 1
    /\ cserved = <<>>
    /\ cres = "none"
    /\ doc = NoDoc
    /\ html = <<>>
    /\ warnings = 0
    /\ fetched = <<>>
    /\ pdfs = {}
    /\ errorLog \in PriorLogs
    /\ logAtStart = errorLog
    /\ renderFailed = <<>>

\* a whole run of main()
Init == InitRun(Listings)

Next ==
    \/ Start
    \/ FetchIssuesRequest
    \/ FetchIssuesNext
    \/ FetchCommentsRequest
    \/ AssembleIssue
    \/ ExportIssue

Spec == Init /\ [][Next]_vars

\* fetch_issues consumed by a loop that does nothing with the records
ConsumeIssue ==
    /\ pc = "FetchingComments"
    /\ pc' = "Iterating"
    /\ issue_data' = NoIssue
    /\ cres' = "none"
    /\ UNCHANGED <<upstream, genVars, comments, cpage, cserved, inlineVars,
                   outVars, trace, exited, logAtStart>>

InitFetch == InitRun(Listings \cup {BigListing})

NextFetch ==
    \/ Start
    \/ FetchIssuesRequest
    \/ FetchIssuesNext
    \/ ConsumeIssue

SpecFetch == InitFetch /\ [][NextFetch]_vars

\* inline_images_in_html called on a document of its own
InlineCall ==
    /\ pc = "Inlining"
    /\ \E outs \in OutcomeChoices(doc.imgs) :
        LET r == inline_images_in_html(doc.imgs, outs)
        IN  /\ html' = r.html
            /\ warnings' = r.warnings
            /\ fetched' = r.fetched
    /\ pc' = "Inlined"
    /\ UNCHANGED <<upstream, genVars, issueVars, doc, outVars, trace, exited,
                   logAtStart>>

InitInline ==
    /\ upstream = <<>>
    /\ pc = "Inlining"
    /\ page = 1
    /\ data = <<>>
    /\ idx = 0
    /\ issue_data = NoIssue
    /\ yielded = <<>>
    /\ trace = <<>>
    /\ exited = "running"
    /\ total_issues = 0
    /\ comments = <<>>
    /\ cpage = 1
    /\ cserved = <<>>
    /\ cres = "none"
    /\ doc \in {[number |-> 0, comments |-> <<>>, imgs |-> d] : d \in Docs}
    /\ html = <<>>
    /\ warnings = 0
    /\ fetched = <<>>
    /\ pdfs = {}
    /\ errorLog = <<>>
    /\ logAtStart = <<>>
    /\ renderFailed = <<>>

NextInline == InlineCall

SpecInline == InitInline /\ [][NextInline]_vars

\* ------------------------------------------------------------ properties
InFlight == {"FetchingComments", "Assembling", "Exporting"}

NotPull(r) == ~r.pull_request

IsList(e) == e.kind = "list"

IsIssueStep(e) == e.kind # "list"

ListEvents == SelectSeq(trace, IsList)

IssueEvents == SelectSeq(trace, IsIssueStep)

ListPages == [i \in 1..Len(ListEvents) |-> ListEvents[i].arg]

AllListOK == \A i \in 1..Len(ListEvents) : ListEvents[i].res = "ok"

Last(s) == s[Len(s)]

\* the records of the first n pages of the listing that are issues
Min(a, b) == IF a < b THEN a ELSE b

IssuesOfPages(n) ==
    SelectSeq(Flatten(SubSeq(upstream, 1, Min(n, Len(upstream)))), NotPull)

\* the records the generator's loops have passed so far
Passed ==
    IF pc \in InFlight \cup {"Iterating"} \/ (pc = "Crashed" /\ cres = "raise")
    THEN Flatten(SubSeq(upstream, 1, Min(page - 1, Len(upstream))))
             \o SubSeq(data, 1, idx)
    ELSE Flatten(SubSeq(upstream, 1, Min(page - 1, Len(upstream))))

\* C1: with every listing request answered successfully by the pages of a
\* finite listing, fetch_issues yields exactly the records without the
\* pull-request marker, each once, in page order and in the order within
\* each page; and at every moment what it has yielded is exactly the
\* issues among the records it has passed.
C1_YieldsExactlyTheIssues ==
    /\ yielded = SelectSeq(Passed, NotPull)
    /\ (pc = "Done" /\ AllListOK) =>
           yielded = SelectSeq(Flatten(upstream), NotPull)

C1_Witness ==
    /\ pc = "Done"
    /\ AllListOK
    /\ Len(upstream) >= 2
    /\ Len(yielded) >= 2
    /\ \E p \in 1..Len(upstream) : \E i \in 1..Len(upstream[p]) :
           upstream[p][i].pull_request

\* C2 as claimed: on pages of sizes [100, 100, 37] the fetcher yields 237
\* records and requests no page after the third; on an empty first page
\* it yields nothing.
C2_Original ==
    /\ (upstream = BigListing /\ pc = "Done" /\ AllListOK) =>
           (Len(yielded) = 237 /\ ListPages = <<1, 2, 3>>)
    /\ (upstream = <<>> /\ pc = "Done" /\ AllListOK) => yielded = <<>>

\* C2 as amended: on pages of sizes [100, 100, 37] the fetcher yields 237
\* records, requests a fourth page, and stops when that page comes back
\* empty, requesting no page after the fourth; on an empty first page it
\* yields nothing and requests no second page.
C2_StopsOnEmptyPage ==
    /\ (upstream = BigListing /\ pc = "Done" /\ AllListOK) =>
           (Len(yielded) = 237 /\ ListPages = <<1, 2, 3, 4>>)
    /\ (upstream = <<>> /\ pc = "Done" /\ AllListOK) =>
           (yielded = <<>> /\ ListPages = <<1>>)

C2_Witness ==
    /\ upstream = BigListing
    /\ pc = "Done"
    /\ AllListOK
    /\ Len(yielded) = 237

\* C3: a non-success status on a listing request, on whichever page, takes
\* the run to Aborted with a non-zero exit in that very step, leaving the
\* PDFs, the error log and the count as they were; the failed page was
\* requested once; and from Aborted no step of the run is taken any more.
C3_ListingFailureAborts ==
    /\ [][(pc = "FetchingIssues" /\ Last(trace').res = "error") =>
             /\ pc' = "Aborted"
             /\ exited' = "nonzero"
             /\ pdfs' = pdfs
             /\ errorLog' = errorLog
             /\ total_issues' = total_issues
             /\ yielded' = yielded]_vars
    /\ [](pc = "Aborted" =>
             /\ Last(trace) = Event("list", page, "error")
             /\ Cardinality({i \in 1..Len(trace) :
                    IsList(trace[i]) /\ trace[i].arg = page}) = 1)
    /\ [][pc # "Aborted"]_vars

C3_Witness ==
    /\ pc = "Aborted"
    /\ page >= 2
    /\ pdfs # {}
    /\ Len(errorLog) > Len(logAtStart)

\* C4 as claimed: a run that ends exits non-zero exactly when its initial
\* listing request failed (runs ended by an uncaught exception set aside).
C4_Original ==
    pc \in {"Done", "Aborted"} =>
        (exited = "nonzero" <=> trace[1] = Event("list", 1, "error"))

\* C4 as amended: the process exits non-zero as soon as any listing request,
\* the first or a later one, returns a non-success status, and also when a
\* listing or comment request raises an exception, which nothing catches;
\* in every other run it exits zero after processing every fetched issue,
\* those whose PDF generation failed included.
C4_ExitStatus ==
    /\ pc \notin Terminal => exited = "running"
    /\ pc = "Aborted" =>
           (exited = "nonzero" /\ Last(trace) = Event("list", page, "error"))
    /\ pc = "Crashed" =>
           /\ exited = "nonzero"
           /\ Last(trace) = Event("list", page, "raise") \/ cres = "raise"
    /\ pc = "Done" =>
           /\ exited = "zero"
           /\ \A i \in 1..Len(ListEvents) :
                  ListEvents[i].res \in {"ok", "nonlist"}
           /\ total_issues = Len(yielded)
           /\ \A i \in 1..Len(yielded) :
                  \E j \in 1..Len(trace) :
                      trace[j].kind = "export" /\ trace[j].arg = yielded[i].number

C4_Witness ==
    /\ pc = "Aborted"
    /\ page = 2
    /\ exited = "nonzero"
    /\ total_issues >= 1
    /\ renderFailed # <<>>

\* C5: comment paging starts at page 1 and goes up by one; when a comment
\* page returns a non-success status the function returns the pages before
\* it concatenated in order, nothing is appended to the error log, no
\* further comment page is requested for the issue, and the run goes on
\* to assemble and export the issue with those comments.
C5_CommentFailureKeepsPartial ==
    /\ [](pc = "FetchingComments" => cpage = Len(cserved) + 1)
    /\ [][(pc = "FetchingComments" /\ cres' = "error") =>
             /\ comments' = Flatten(cserved)
             /\ cserved' = cserved
             /\ cpage' = cpage
             /\ errorLog' = errorLog
             /\ exited' = "running"
             /\ pc' = "Assembling"]_vars
    /\ [][pc = "Assembling" =>
             /\ pc' = "Exporting"
             /\ doc'.number = issue_data.number
             /\ doc'.comments = comments
             /\ cpage' = cpage]_vars
    /\ [][pc = "Exporting" =>
             /\ pc' = "Iterating"
             /\ Last(trace') = Event("export", doc.number, Last(trace').res)]_vars

C5_Witness ==
    /\ pc = "Exporting"
    /\ cres = "error"
    /\ Len(cserved) = 2
    /\ doc.comments = Flatten(cserved)

\* the issues whose loop body has finished
Processed ==
    IF pc \in InFlight \/ (pc = "Crashed" /\ cres = "raise")
    THEN SubSeq(yielded, 1, Len(yielded) - 1)
    ELSE yielded

ProcessedNumbers == [i \in 1..Len(Processed) |-> Processed[i].number]

DidFail(n) == n \in Range(renderFailed)

\* C6: whatever set of issues has its rendering raise, the run goes on to
\* the next issue; the PDFs written are exactly those of the processed
\* issues whose rendering did not raise; the error log has gained exactly
\* one line per failed issue, naming it, in processing order; and the
\* count is the number of issues processed, failed ones included, so at
\* Done it is the number of issues fetched.
C6_RenderFailureContained ==
    /\ [](/\ pdfs = Range(ProcessedNumbers) \ Range(renderFailed)
          /\ renderFailed = SelectSeq(ProcessedNumbers, DidFail)
          /\ errorLog = logAtStart \o
                 [i \in 1..Len(renderFailed) |-> LogLine(renderFailed[i])]
          /\ total_issues = Len(Processed)
          /\ (pc = "Done" => total_issues = Len(yielded)))
    /\ [][pc = "Exporting" => (pc' = "Iterating" /\ exited' = "running")]_vars

C6_Witness ==
    /\ pc = "Done"
    /\ Len(yielded) = 3
    /\ renderFailed = <<yielded[2].number>>
    /\ pdfs = {yielded[1].number, yielded[3].number}
    /\ Len(errorLog) = Len(logAtStart) + 1
    /\ total_issues = 3

\* C7 as claimed: a run ends only in Done or through a listing failure,
\* and never while an issue is inside the per-issue sub-pipeline.
C7_Claim ==
    pc \in Terminal =>
        /\ issue_data = NoIssue
        /\ pc = "Done" \/ Last(trace).kind = "list"

IsWebAddress(src) == ValidUrl(src)

\* C8 as claimed: per image reference, a web address fetched successfully
\* becomes a data: source; a web address whose fetch fails keeps its source
\* and gives one warning; a reference that is no web address is neither
\* fetched nor changed; every reference is handled and the document is
\* returned.
C8_Claim ==
    pc = "Inlined" =>
        /\ Len(html) = Len(doc.imgs)
        /\ \A i \in 1..Len(doc.imgs) :
            LET src == doc.imgs[i]
            IN  /\ (IsWebAddress(src) /\ fetched[i] = "ok") =>
                       StartsWith(html[i], <<"d", "a", "t", "a", ":">>)
                /\ (IsWebAddress(src) /\ fetched[i] \in {"error", "raise"}) =>
                       html[i] = src
                /\ ~IsWebAddress(src) =>
                       (fetched[i] = "none" /\ html[i] = src)
        /\ warnings = Cardinality({i \in 1..Len(doc.imgs) :
               IsWebAddress(doc.imgs[i]) /\ fetched[i] \in {"error", "raise"}})

\* C9: error_log.txt is append-only: a step either leaves it alone or adds
\* one line after all the lines there, a rendering that raises adds exactly
\* one, and the lines found at the start of the run stay in front.
C9_LogAppendOnly ==
    /\ [][\/ errorLog' = errorLog
          \/ (Len(errorLog') = Len(errorLog) + 1 /\ IsPrefix(errorLog, errorLog'))]_vars
    /\ [][(pc = "Exporting" /\ Last(trace').res = "raise") =>
             errorLog' = Append(errorLog, LogLine(doc.number))]_vars
    /\ [](IsPrefix(logAtStart, errorLog))

C9_Witness ==
    /\ Len(errorLog) >= 3
    /\ errorLog[1] = PriorLine
    /\ errorLog[2].issue # errorLog[3].issue

StepKinds == <<"yield", "comments", "assemble", "export">>

ExportedBefore(t) ==
    {trace[j].arg : j \in {k \in 1..(t - 1) : trace[k].kind = "export"}}

Numbers(records) == {records[i].number : i \in 1..Len(records)}

\* C10: the run is sequential and lazy: per issue the comment fetch comes
\* before the assembly and that before the export, and the three are over
\* before the next issue is taken up; listing pages are requested in
\* order, and a page only once every issue of the pages before it has
\* been exported; so a run aborted on page p has fully processed and
\* counted exactly the issues of pages 1..p-1.
C10_LazySequentialOrder ==
    /\ \A i \in 1..Len(IssueEvents) :
           /\ IssueEvents[i].kind = StepKinds[((i - 1) % 4) + 1]
           /\ IssueEvents[i].arg = yielded[((i - 1) \div 4) + 1].number
    /\ \A i \in 1..Len(ListPages) : ListPages[i] = i
    /\ \A t \in 1..Len(trace) :
           IsList(trace[t]) =>
               ExportedBefore(t) = Numbers(IssuesOfPages(trace[t].arg - 1))
    /\ pc = "Aborted" =>
           /\ yielded = IssuesOfPages(page - 1)
           /\ total_issues = Len(IssuesOfPages(page - 1))
           /\ Len(IssueEvents) = 4 * Len(yielded)

C10_Witness ==
    /\ pc = "Aborted"
    /\ page = 2
    /\ Len(upstream) = 2
    /\ total_issues = 1
    /\ ~upstream[2][1].pull_request
    /\ \E i \in 1..Len(upstream[1]) : upstream[1][i].pull_request

====
